---- MODULE Spec2Model ----
(***************************************************************************)
(* Model of the Crates.io backend (perceval/backends/mozilla/crates.py):   *)
(* the Crates backend generators (__fetch_crates, __fetch_summary), the    *)
(* CratesClient page fetcher (__fetch_items), the registry they talk to    *)
(* and the caller that pulls items one at a time.                          *)
(***************************************************************************)
EXTENDS Integers, Sequences, FiniteSets, TLC

(***************************************************************************)
(* Bounds of the model.                                                    *)
(***************************************************************************)
\* Listing pages whose request and response are recorded; later pages are
\* requested by the same code but the registry has nothing left to list.
MaxPage == 3
\* Entries the registry lists over all the pages of one fetch.
MaxEntries == 2
\* Largest meta.total the registry reports.
MaxTotal == 2
\* Summary fetches one caller makes in a row.
MaxRuns == 2

(***************************************************************************)
(* Module constants of crates.py.                                          *)
(***************************************************************************)
CATEGORY_CRATES == "crates"
CATEGORY_SUMMARY == "summary"
CATEGORIES == <<CATEGORY_CRATES, CATEGORY_SUMMARY>>

(***************************************************************************)
(* Dates.  A datetime is a wall-clock reading t with a UTC offset off; the *)
(* instant it denotes is t - off.  kind is "aware", "naive" (no offset) or *)
(* "none" (Python's None).                                                 *)
(***************************************************************************)
Date(k, t, off) == [kind |-> k, t |-> t, off |-> off]
None == Date("none", 0, 0)

\* utils.DEFAULT_DATETIME: 1970-01-01 00:00:00 UTC, the epoch.
DEFAULT_DATETIME == Date("aware", 0, 0)

\* grimoirelab_toolkit.datetime.datetime_to_utc: the same instant expressed
\* with offset 0; a naive datetime is taken to be UTC already.
datetime_to_utc(d) ==
    IF d.kind = "naive" THEN Date("aware", d.t, 0)
    ELSE Date("aware", d.t - d.off, 0)

\* grimoirelab_toolkit.datetime.str_to_datetime: the aware datetime a date
\* string denotes; a string without offset is read as UTC.
str_to_datetime(s) ==
    IF s.kind = "naive" THEN Date("aware", s.t, 0)
    ELSE Date("aware", s.t, s.off)

\* datetime.__lt__ on aware datetimes compares instants.
DateLt(a, b) == a.t - a.off < b.t - b.off

\* str(datetime_utcnow()): the clock reading as a UTC date string.
datetime_utcnow(now) == Date("aware", now, 0)

(***************************************************************************)
(* What the caller may pass and what the registry may answer.              *)
(***************************************************************************)
Categories == {CATEGORY_CRATES, CATEGORY_SUMMARY, "other"}

\* from_date arguments: None, and instant 1 written with a UTC offset.
FromDates == { None, Date("aware", 2, 1) }

\* updated_at strings of the registry: instant 1 and instant 0 (written
\* with a wall-clock reading of 2).
DateStrings == { Date("aware", 1, 0), Date("aware", 2, 2) }

\* Crate ids of the registry.
Ids == { 1, 2 }

\* One entry of a page's `crates` list.
Entries == [id : Ids, updated_at : DateStrings]

RECURSIVE SeqsUpTo(_, _)
SeqsUpTo(S, n) ==
    IF n = 0 THEN { <<>> }
    ELSE LET shorter == SeqsUpTo(S, n - 1)
         IN  shorter \cup { Append(s, x) : s \in { q \in shorter : Len(q) = n - 1 }, x \in S }

\* The `crates` lists of at most n entries.
PageLists(n) == SeqsUpTo(Entries, n)

\* The `meta` member of a page envelope: absent, or carrying `total`.
Metas == { [present |-> FALSE, total |-> 0] }
         \cup { [present |-> TRUE, total |-> n] : n \in 0..MaxTotal }

\* Outcome of one listing request: a transport error, an undecodable body,
\* a body without `crates`, or a page envelope.
PageResponses(n) ==
    { [status |-> s, crates |-> <<>>, meta |-> [present |-> FALSE, total |-> 0]] :
        s \in { "http_error", "bad_json", "no_crates" } }
    \cup { [status |-> "ok", crates |-> cs, meta |-> m] : cs \in PageLists(n), m \in Metas }

\* The answers to the request for page p when the registry has listed
\* `listed` entries so far; past the recorded pages it has none left.
PageResponsesAt(p, listed) ==
    PageResponses(IF p <= MaxPage THEN MaxEntries - listed ELSE 0)

\* The `crate` object of a detail payload for crate id i.
CrateObjects(i) == { ("id" :> i @@ "updated_at" :> d) : d \in DateStrings }

\* Outcome of one detail request.
DetailStatuses == { "ok", "http_error", "bad_json", "no_crate" }

\* Outcome of one attribute request.
AttrStatuses == { "ok", "http_error", "bad_json" }

\* The decoded payload of attribute a of crate i.
AttrPayload(i, a) == [of |-> i, attribute |-> a]

\* The summary payloads of the registry.
SummaryObjects ==
    { ("num_downloads" :> 5 @@ "num_crates" :> 1),
      ("num_downloads" :> 5 @@ "num_crates" :> 1 @@ "fetched_on" :> Date("aware", 0, 0)) }

SummaryStatuses == { "ok", "http_error", "bad_json" }

\* Readings of the UTC clock.
Clock == { 0, 1 }

\* The exception a failed outcome raises.
ErrorOf(status) ==
    CASE status = "http_error" -> "HTTPError"
      [] status = "bad_json" -> "JSONDecodeError"
      [] OTHER -> "KeyError"

(***************************************************************************)
(* Requests.                                                               *)
(***************************************************************************)
NoPayload == [k \in {} |-> 0]

\* urijoin(CRATES_API_URL, ...) as the path segments after the API root.
Request(url, payload, at) == [url |-> url, payload |-> payload, at |-> at]

NoEntry == <<0, 0>>

\* A listing answer and a yielded raw page as the logs keep them: the
\* outcome and the `crates` list.
Logged(resp) == [status |-> resp.status, crates |-> resp.crates]

NoTotal == 0 - 1

RECURSIVE Listed(_)
Listed(log) ==
    IF log = <<>> THEN 0 ELSE Len(Head(log).crates) + Listed(Tail(log))

VARIABLES
    category,       \* fetch(): the category argument
    from_date_arg,  \* fetch(): the from_date argument
    from_date,      \* the watermark after normalisation
    gen,            \* generator fetch_items returned: "none", "crates", "summary"
    pc,             \* position of that generator
    caller,         \* "idle" or "waiting" (inside next())
    crates,         \* __fetch_crates: crates['crates'] of the current page
    idx,            \* __fetch_crates: position in crates
    crate_id,       \* __fetch_crates: crate_id
    crate,          \* __fetch_crates: crate
    pf_pc,          \* position of the __fetch_items generator
    page,           \* __fetch_items: page
    parsed_crates,  \* __fetch_items: parsed_crates
    total_crates,   \* __fetch_items: total_crates
    requests,       \* every request issued through CratesClient.fetch
    outcomes,       \* for each request, how the registry answered it
    responses,      \* the registry's answers to the listing requests
    reported_total, \* meta.total of the first listing answer (-1: none yet)
    pages,          \* the raw pages __fetch_items yielded
    summaries,      \* the decoded summary payloads __fetch_summary received
    details,        \* the `crate` objects __fetch_crate_data returned
    yielded,        \* the items handed to the caller
    yielded_for,    \* for each item, the listing position and id it was fetched for
    error,          \* the exception the caller received, if any
    item,           \* the mapping handed to the metadata_* static methods
    metadata        \* what metadata_category, metadata_id, metadata_updated_on gave

vars == << category, from_date_arg, from_date, gen, pc, caller, crates, idx,
           crate_id, crate, pf_pc, page, parsed_crates, total_crates, requests,
           outcomes, responses, reported_total, pages, summaries, details, yielded,
           yielded_for, error, item, metadata >>

aggVars == << crates, idx, crate_id, crate >>
pfVars == << pf_pc, page, parsed_crates, total_crates >>
logVars == << requests, outcomes, responses, reported_total, pages, summaries,
             details >>
outVars == << yielded, yielded_for >>
argVars == << category, from_date_arg >>
itemVars == << item, metadata >>

\* No item has been handed to the metadata_* methods.
NoMetadata == [category |-> "none", id |-> <<>>, updated_on |-> <<>>]

\* Before fetch() is called, for the arguments in cats and dates.
InitFetch(cats, dates) ==
    /\ category \in cats
    /\ from_date_arg \in dates
    /\ from_date = None
    /\ gen = "none"
    /\ pc = "init"
    /\ caller = "idle"
    /\ crates = <<>>
    /\ idx = 0
    /\ crate_id = 0
    /\ crate = NoPayload
    /\ pf_pc = "none"
    /\ page = 0
    /\ parsed_crates = 0
    /\ total_crates = 0
    /\ requests = <<>>
    /\ outcomes = <<>>
    /\ responses = <<>>
    /\ reported_total = NoTotal
    /\ pages = <<>>
    /\ summaries = <<>>
    /\ details = <<>>
    /\ yielded = <<>>
    /\ yielded_for = <<>>
    /\ error = "none"

Init ==
    /\ InitFetch(Categories, FromDates)
    /\ item = NoPayload
    /\ metadata = NoMetadata


(***************************************************************************)
(* Crates.fetch and Crates.fetch_items: normalise the watermark and pick   *)
(* the generator.                                                          *)
(***************************************************************************)
\* fetch(): `if not from_date: from_date = DEFAULT_DATETIME`, then to UTC.
NormalizeFromDate(d) ==
    datetime_to_utc(IF d = None THEN DEFAULT_DATETIME ELSE d)

\* fetch_items(): the generator a category selects.
FetchItemsUnlessSummary(cat) ==
    IF cat # CATEGORY_SUMMARY THEN "crates" ELSE "summary"

\* fetch_items: `if category == CATEGORY_CRATES: ... else: ...`
FetchItems(cat) ==
    IF cat = CATEGORY_CRATES THEN "crates" ELSE "summary"

Fetch ==
    /\ pc = "init"
    /\ from_date' = NormalizeFromDate(from_date_arg)
    /\ gen' = FetchItems(category)
    /\ pc' = "start"
    /\ UNCHANGED << argVars, itemVars, caller, aggVars, pfVars, logVars, outVars, error >>

\* The caller asks the generator for its next item.
Pull ==
    /\ caller = "idle"
    /\ pc \notin { "init", "done", "error" }
    /\ caller' = "waiting"
    /\ UNCHANGED << argVars, itemVars, from_date, gen, pc, aggVars, pfVars, logVars,
                    outVars, error >>

\* An exception e leaves the generator and reaches the caller.
Raise(e) ==
    /\ error' = e
    /\ pc' = "error"
    /\ caller' = "idle"

RunningEagerly(g, at) ==
    /\ gen = g
    /\ pc = at

\* The generator body runs only between a next() of the caller and the
\* following yield, return or exception.
Running(g, at) ==
    /\ gen = g
    /\ pc = at
    /\ caller = "waiting"

(***************************************************************************)
(* Crates.__fetch_summary and CratesClient.summary.                        *)
(***************************************************************************)
SummaryRequestPaged ==
    Request(<<CATEGORY_SUMMARY>>, ("sort" :> "alphabetical" @@ "page" :> 1), NoEntry)
SummaryRequest == Request(<<CATEGORY_SUMMARY>>, NoPayload, NoEntry)

\* summary['fetched_on'] = str(datetime_utcnow())
StampSummaryTwice(summary, now) ==
    ("fetched_on" :> datetime_utcnow(now)) @@ ("num_crates" :> now) @@ summary
StampSummary(summary, now) ==
    ("fetched_on" :> datetime_utcnow(now)) @@ summary

FetchSummary(status, summary, now) ==
    /\ Running("summary", "start")
    /\ requests' = Append(requests, SummaryRequest)
    /\ outcomes' = Append(outcomes, status)
    /\ IF status = "ok"
       THEN /\ summaries' = Append(summaries, summary)
            /\ yielded' = Append(yielded, StampSummary(summary, now))
            /\ yielded_for' = Append(yielded_for, [at |-> NoEntry, id |-> 0])
            /\ pc' = "summary_yielded"
            /\ caller' = "idle"
            /\ UNCHANGED error
       ELSE /\ Raise(ErrorOf(status))
            /\ UNCHANGED << summaries, outVars >>
    /\ UNCHANGED << argVars, itemVars, from_date, gen, aggVars, pfVars, responses,
                    reported_total, pages, details >>

SummaryEnd ==
    /\ Running("summary", "summary_yielded")
    /\ pc' = "done"
    /\ caller' = "idle"
    /\ UNCHANGED << argVars, itemVars, from_date, gen, aggVars, pfVars, logVars, outVars,
                    error >>

(***************************************************************************)
(* CratesClient.crates and CratesClient.__fetch_items: the page fetcher.   *)
(***************************************************************************)
\* crates(): from_page defaults to 1.
FromPage == 1

ListingRequest(p) ==
    Request(<<CATEGORY_CRATES>>, ("sort" :> "alphabetical" @@ "page" :> p), NoEntry)

\* `if parsed_crates >= total_crates: fetch_data = False`
StopOnGreater(parsed, total) == parsed > total
StopOnEqual(parsed, total) == parsed = total
StopFetching(parsed, total) == parsed >= total

ReadsTotalNever(total) == FALSE
ReadsTotalAlways(total) == TRUE

\* `if not total_crates: total_crates = content['meta']['total']`
ReadsTotal(total) == total = 0

NextPageStay(p) == p

\* `page += 1`; past the recorded pages the counter is not followed.
NextPage(p) == IF p <= MaxPage THEN p + 1 ELSE p

\* The generator is entered: lines 304-308.
PFStart ==
    /\ Running("crates", "next_page")
    /\ pf_pc = "start"
    /\ parsed_crates' = 0
    /\ total_crates' = 0
    /\ pf_pc' = "fetch"
    /\ UNCHANGED << argVars, itemVars, from_date, gen, pc, caller, aggVars, page, logVars,
                    outVars, error >>

\* One pass of the loop body up to the yield: lines 309-325, and the
\* aggregator taking the page (lines 187-190).
PFFetch(resp) ==
    /\ Running("crates", "next_page")
    /\ pf_pc = "fetch"
    /\ requests' = IF page <= MaxPage
                   THEN Append(requests, ListingRequest(page)) ELSE requests
    /\ outcomes' = IF page <= MaxPage THEN Append(outcomes, resp.status) ELSE outcomes
    /\ responses' = IF page <= MaxPage
                    THEN Append(responses, Logged(resp)) ELSE responses
    /\ reported_total' = IF responses = <<>> /\ resp.status = "ok" /\ resp.meta.present
                         THEN resp.meta.total ELSE reported_total
    /\ IF resp.status # "ok"
       THEN /\ Raise(ErrorOf(resp.status))
            /\ pf_pc' = "error"
            /\ UNCHANGED << parsed_crates, total_crates, pages, crates, idx >>
       ELSE /\ parsed_crates' = parsed_crates + Len(resp.crates)
            /\ IF ReadsTotal(total_crates) /\ ~resp.meta.present
               THEN /\ Raise("KeyError")
                    /\ pf_pc' = "error"
                    /\ UNCHANGED << total_crates, pages, crates, idx >>
               ELSE /\ total_crates' = IF ReadsTotal(total_crates)
                                       THEN resp.meta.total ELSE total_crates
                    /\ pf_pc' = "suspended"
                    /\ pages' = IF page <= MaxPage
                                THEN Append(pages, Logged(resp)) ELSE pages
                    /\ crates' = resp.crates
                    /\ idx' = 1
                    /\ pc' = "entry"
                    /\ UNCHANGED << caller, error >>
    /\ UNCHANGED << argVars, itemVars, from_date, gen, crate_id, crate, page, summaries, details,
                    outVars >>

\* The generator is resumed after its yield: lines 326-329 and the loop
\* test of line 308; when it ends, so does the aggregator's loop.
PFResume ==
    /\ Running("crates", "next_page")
    /\ pf_pc = "suspended"
    /\ page' = NextPage(page)
    /\ IF StopFetching(parsed_crates, total_crates)
       THEN /\ pf_pc' = "done"
            /\ pc' = "done"
            /\ caller' = "idle"
       ELSE /\ pf_pc' = "fetch"
            /\ UNCHANGED << pc, caller >>
    /\ UNCHANGED << argVars, itemVars, from_date, gen, aggVars, parsed_crates, total_crates,
                    logVars, outVars, error >>


(***************************************************************************)
(* Crates.__fetch_crates: the incremental crate aggregator.                *)
(***************************************************************************)
\* Lines 183-185: normalise the watermark, create the page generator.
AggStart ==
    /\ Running("crates", "start")
    /\ from_date' = datetime_to_utc(from_date)
    /\ pf_pc' = "start"
    /\ page' = FromPage
    /\ pc' = "next_page"
    /\ UNCHANGED << argVars, itemVars, gen, caller, aggVars, parsed_crates, total_crates,
                    logVars, outVars, error >>

\* The listing position of the entry being processed.
Here == << Len(pages), idx >>

\* `if str_to_datetime(crate_container['updated_at']) < from_date: continue`
SkipsByWallClock(crate_container, watermark) ==
    crate_container.updated_at.t < watermark.t
SkipsOlderOrEqual(crate_container, watermark) ==
    ~DateLt(watermark, str_to_datetime(crate_container.updated_at))
Skips(crate_container, watermark) ==
    DateLt(str_to_datetime(crate_container.updated_at), watermark)

\* The inner loop has run through the page: back to the page generator.
PageEnd ==
    /\ Running("crates", "entry")
    /\ idx > Len(crates)
    /\ pc' = "next_page"
    /\ UNCHANGED << argVars, itemVars, from_date, gen, caller, aggVars, pfVars, logVars,
                    outVars, error >>

\* Lines 192-193: an entry older than the watermark is passed over.
SkipCrate ==
    /\ Running("crates", "entry")
    /\ idx <= Len(crates)
    /\ Skips(crates[idx], from_date)
    /\ idx' = idx + 1
    /\ UNCHANGED << argVars, itemVars, from_date, gen, pc, caller, crates, crate_id, crate,
                    pfVars, logVars, outVars, error >>

\* `crate_id = crate_container['id']`
CrateIdOfFirst(crate_container) == crates[1].id
CrateIdOf(crate_container) == crate_container.id

\* Line 195: the entry is selected.
SelectCrate ==
    /\ Running("crates", "entry")
    /\ idx <= Len(crates)
    /\ ~Skips(crates[idx], from_date)
    /\ crate_id' = CrateIdOf(crates[idx])
    /\ pc' = "crate_data"
    /\ UNCHANGED << argVars, itemVars, from_date, gen, caller, crates, idx, crate, pfVars,
                    logVars, outVars, error >>

\* CratesClient.crate(crate_id)
CrateRequest(i, at) == Request(<<CATEGORY_CRATES, i>>, NoPayload, at)

\* CratesClient.crate_attribute(crate_id, attribute)
AttributeRequest(i, attribute, at) ==
    Request(<<CATEGORY_CRATES, i, attribute>>, NoPayload, at)

\* __fetch_crate_data (line 197): `crate = json.loads(raw_crate)['crate']`.
FetchCrateData(status, object) ==
    /\ Running("crates", "crate_data")
    /\ requests' = Append(requests, CrateRequest(crate_id, Here))
    /\ outcomes' = Append(outcomes, status)
    /\ IF status = "ok"
       THEN /\ crate' = object
            /\ details' = Append(details, object)
            /\ pc' = "owner_team"
            /\ UNCHANGED << caller, error >>
       ELSE /\ Raise(ErrorOf(status))
            /\ UNCHANGED << crate, details >>
    /\ UNCHANGED << argVars, itemVars, from_date, gen, crates, idx, crate_id, pfVars,
                    responses, reported_total, pages, summaries, outVars >>

SetKeyOnly(c, key, value) == (key :> value)

\* crate[key] = value
SetKey(c, key, value) == (key :> value) @@ c

\* One of lines 198-201: fetch an attribute and store it under key.
FetchAttributeLenient(at, attribute, key, next, status) ==
    /\ Running("crates", at)
    /\ requests' = Append(requests, AttributeRequest(crate_id, attribute, Here))
    /\ outcomes' = Append(outcomes, status)
    /\ crate' = IF status = "ok"
                THEN SetKey(crate, key, AttrPayload(crate_id, attribute)) ELSE crate
    /\ pc' = next
    /\ UNCHANGED << argVars, itemVars, from_date, gen, caller, error, crates, idx, crate_id,
                    pfVars, responses, reported_total, pages, summaries, details,
                    outVars >>
FetchAttribute(at, attribute, key, next, status) ==
    /\ Running("crates", at)
    /\ requests' = Append(requests, AttributeRequest(crate_id, attribute, Here))
    /\ outcomes' = Append(outcomes, status)
    /\ IF status = "ok"
       THEN /\ crate' = SetKey(crate, key, AttrPayload(crate_id, attribute))
            /\ pc' = next
            /\ UNCHANGED << caller, error >>
       ELSE /\ Raise(ErrorOf(status))
            /\ UNCHANGED crate
    /\ UNCHANGED << argVars, itemVars, from_date, gen, crates, idx, crate_id, pfVars,
                    responses, reported_total, pages, summaries, details, outVars >>

\* Line 198 and __fetch_crate_owner_team.
FetchCrateOwnerTeam(status) ==
    FetchAttribute("owner_team", "owner_team", "owner_team_data", "owner_user", status)

\* Line 199 and __fetch_crate_owner_user.
FetchCrateOwnerUser(status) ==
    FetchAttribute("owner_user", "owner_user", "owner_user_data", "downloads", status)

FetchCrateVersionDownloadsAsVersions(status) ==
    FetchAttribute("downloads", "downloads", "versions_data", "versions", status)

\* Line 200 and __fetch_crate_version_downloads.
FetchCrateVersionDownloads(status) ==
    FetchAttribute("downloads", "downloads", "version_downloads_data", "versions", status)

\* Line 201 and __fetch_crate_versions.
FetchCrateVersions(status) ==
    FetchAttribute("versions", "versions", "versions_data", "yield", status)

\* Line 203: the composite record goes to the caller; the loop moves on
\* when the caller pulls again.
YieldCrate ==
    /\ Running("crates", "yield")
    /\ yielded' = Append(yielded, crate)
    /\ yielded_for' = Append(yielded_for, [at |-> Here, id |-> crate_id])
    /\ caller' = "idle"
    /\ idx' = idx + 1
    /\ pc' = "entry"
    /\ UNCHANGED << argVars, itemVars, from_date, gen, crates, crate_id, crate, pfVars,
                    logVars, error >>

(***************************************************************************)
(* The specification.                                                      *)
(***************************************************************************)
Next ==
    \/ Fetch
    \/ Pull
    \/ \E status \in SummaryStatuses, summary \in SummaryObjects, now \in Clock :
         FetchSummary(status, summary, now)
    \/ SummaryEnd
    \/ AggStart
    \/ PFStart
    \/ \E resp \in PageResponsesAt(page, Listed(responses)) : PFFetch(resp)
    \/ PFResume
    \/ PageEnd
    \/ SkipCrate
    \/ SelectCrate
    \/ \E status \in DetailStatuses, object \in CrateObjects(crate_id) :
         FetchCrateData(status, object)
    \/ \E status \in AttrStatuses : FetchCrateOwnerTeam(status)
    \/ \E status \in AttrStatuses : FetchCrateOwnerUser(status)
    \/ \E status \in AttrStatuses : FetchCrateVersionDownloads(status)
    \/ \E status \in AttrStatuses : FetchCrateVersions(status)
    \/ YieldCrate

Spec == Init /\ [][Next]_vars

\* The caller keeps pulling and every started step of the generators
\* completes: the program is sequential, so a step that can run does run.
FairSpec == Spec /\ WF_vars(Next)

(***************************************************************************)
(* Summary fetches repeated by the same caller: once a summary generator   *)
(* has ended, fetch() is called again with the same arguments.             *)
(***************************************************************************)
FetchSummaryAgain ==
    /\ gen = "summary"
    /\ pc = "done"
    /\ Len(requests) < MaxRuns
    /\ from_date' = NormalizeFromDate(from_date_arg)
    /\ gen' = FetchItems(category)
    /\ pc' = "start"
    /\ UNCHANGED << argVars, itemVars, caller, aggVars, pfVars, logVars, outVars, error >>

SummaryInit == Init /\ category # CATEGORY_CRATES

SummaryNext ==
    \/ Fetch
    \/ Pull
    \/ \E status \in SummaryStatuses, summary \in SummaryObjects, now \in Clock :
         FetchSummary(status, summary, now)
    \/ SummaryEnd
    \/ FetchSummaryAgain

SummarySpec == SummaryInit /\ [][SummaryNext]_vars


(***************************************************************************)
(* The item classifier: the static methods metadata_category, metadata_id  *)
(* and metadata_updated_on, applied to one item mapping.                   *)
(***************************************************************************)
\* S, and every mapping of S extended with key bound to one of values.
WithKey(S, key, values) == S \cup { (key :> v) @@ f : f \in S, v \in values }

\* fetched_on strings an item may carry.
FetchedOns == { Date("aware", 0, 0), Date("aware", 2, 1) }

\* Item mappings: any subset of the keys the methods read, and one key
\* they do not read.
Items ==
    WithKey(WithKey(WithKey(WithKey(WithKey({ NoPayload },
        "num_downloads", { 5 }), "id", Ids), "updated_at", DateStrings),
        "fetched_on", FetchedOns), "name", { "serde" })

\* item[key] of a mapping without that key.
KeyError == << "KeyError" >>

\* str(x): the text of x.
Str(x) == << "str", x >>

\* datetime.timestamp() of an aware datetime: its instant as a float.
timestamp(d) == << "float", d.t - d.off >>

metadata_categoryUnlessId(i) ==
    IF "num_downloads" \in DOMAIN i /\ "id" \notin DOMAIN i
    THEN CATEGORY_SUMMARY ELSE CATEGORY_CRATES

metadata_category(i) ==
    IF "num_downloads" \in DOMAIN i THEN CATEGORY_SUMMARY ELSE CATEGORY_CRATES

metadata_id(i) ==
    IF metadata_category(i) = CATEGORY_CRATES
    THEN IF "id" \in DOMAIN i THEN Str(i["id"]) ELSE KeyError
    ELSE IF "fetched_on" \in DOMAIN i
         THEN Str(timestamp(str_to_datetime(i["fetched_on"]))[2])
         ELSE KeyError

metadata_updated_on(i) ==
    IF metadata_category(i) = CATEGORY_CRATES
    THEN IF "updated_at" \in DOMAIN i
         THEN timestamp(str_to_datetime(i["updated_at"]))
         ELSE KeyError
    ELSE IF "fetched_on" \in DOMAIN i
         THEN timestamp(str_to_datetime(i["fetched_on"]))
         ELSE KeyError

\* The three methods applied to the item.
ItemMetadata ==
    /\ metadata = NoMetadata
    /\ metadata' = [category |-> metadata_category(item),
                    id |-> metadata_id(item),
                    updated_on |-> metadata_updated_on(item)]
    /\ UNCHANGED << argVars, item, from_date, gen, pc, caller, aggVars, pfVars,
                    logVars, outVars, error >>

\* An item mapping is given and the methods have not been applied yet.
ClassifierInit ==
    /\ InitFetch({ CATEGORY_CRATES }, { None })
    /\ item \in Items
    /\ metadata = NoMetadata

ClassifierNext == ItemMetadata

ClassifierSpec == ClassifierInit /\ [][ClassifierNext]_vars

(***************************************************************************)
(* A registry held to nothing but what the fetchers read: the `crate`      *)
(* object of a detail payload and the summary payload are any decoded      *)
(* mapping.                                                                *)
(***************************************************************************)
\* `crate` objects for crate id i: those of the registry's schema, one
\* without `id`, one without `updated_at`, one with a `num_downloads` key.
AnyCrateObjects(i) ==
    CrateObjects(i)
    \cup { ("updated_at" :> Date("aware", 1, 0)),
           ("id" :> i),
           ("id" :> i @@ "updated_at" :> Date("aware", 1, 0) @@ "num_downloads" :> 5) }

\* Summary payloads: those of the registry's schema and one without
\* `num_downloads`.
AnySummaryObjects == SummaryObjects \cup { ("num_crates" :> 1) }

\* Answers to a listing request of a registry that lists all its crates on
\* one page and reports their number as meta.total.
OnePageResponses(p, listed) ==
    { resp \in PageResponsesAt(p, listed) :
        resp.status = "ok" /\ resp.meta.present /\ resp.meta.total = Len(resp.crates) }

PayloadNext ==
    \/ Fetch
    \/ Pull
    \/ \E status \in SummaryStatuses, summary \in AnySummaryObjects, now \in Clock :
         FetchSummary(status, summary, now)
    \/ SummaryEnd
    \/ AggStart
    \/ PFStart
    \/ \E resp \in OnePageResponses(page, Listed(responses)) : PFFetch(resp)
    \/ PFResume
    \/ PageEnd
    \/ SkipCrate
    \/ SelectCrate
    \/ \E status \in DetailStatuses, object \in AnyCrateObjects(crate_id) :
         FetchCrateData(status, object)
    \/ \E status \in AttrStatuses : FetchCrateOwnerTeam(status)
    \/ \E status \in AttrStatuses : FetchCrateOwnerUser(status)
    \/ \E status \in AttrStatuses : FetchCrateVersionDownloads(status)
    \/ \E status \in AttrStatuses : FetchCrateVersions(status)
    \/ YieldCrate

PayloadSpec == Init /\ [][PayloadNext]_vars

(***************************************************************************)
(* A registry whose listing changes while it is read: every page after the *)
(* first comes without `meta` or with a `meta.total` other than the first  *)
(* page's.                                                                 *)
(***************************************************************************)
DriftingResponsesAt(p, listed) ==
    { resp \in PageResponsesAt(p, listed) :
        (p > FromPage /\ resp.status = "ok")
            => (~resp.meta.present \/ resp.meta.total # reported_total) }

DriftNext ==
    \/ Fetch
    \/ Pull
    \/ \E status \in SummaryStatuses, summary \in SummaryObjects, now \in Clock :
         FetchSummary(status, summary, now)
    \/ SummaryEnd
    \/ AggStart
    \/ PFStart
    \/ \E resp \in DriftingResponsesAt(page, Listed(responses)) : PFFetch(resp)
    \/ PFResume
    \/ PageEnd
    \/ SkipCrate
    \/ SelectCrate
    \/ \E status \in DetailStatuses, object \in CrateObjects(crate_id) :
         FetchCrateData(status, object)
    \/ \E status \in AttrStatuses : FetchCrateOwnerTeam(status)
    \/ \E status \in AttrStatuses : FetchCrateOwnerUser(status)
    \/ \E status \in AttrStatuses : FetchCrateVersionDownloads(status)
    \/ \E status \in AttrStatuses : FetchCrateVersions(status)
    \/ YieldCrate

DriftSpec == Init /\ [][DriftNext]_vars

(***************************************************************************)
(* Vocabulary of the properties.                                           *)
(***************************************************************************)
\* The instant a date string or datetime denotes.
Instant(d) == IF d.kind = "naive" THEN d.t ELSE d.t - d.off

\* The instant of the watermark the caller asked for.
Watermark == IF from_date_arg = None THEN 0 ELSE Instant(from_date_arg)

IsListing(r) == Len(r.url) = 1 /\ r.url[1] = "crates"
IsSummary(r) == Len(r.url) = 1 /\ r.url[1] = "summary"
IsDetail(r) == Len(r.url) = 2 /\ r.url[1] = "crates"
IsAttribute(r) == Len(r.url) = 3 /\ r.url[1] = "crates"

\* How many requests of the log satisfy Is.
Count(Is(_)) == Cardinality({ i \in 1..Len(requests) : Is(requests[i]) })

\* Entries in the first k listing answers.
RECURSIVE Cumulative(_)
Cumulative(k) ==
    IF k = 0 THEN 0 ELSE Len(responses[k].crates) + Cumulative(k - 1)

\* Every listing request so far was answered with a usable envelope.
AllPagesSucceeded ==
    /\ \A i \in 1..Len(responses) : responses[i].status = "ok"
    /\ responses # <<>> => reported_total # NoTotal

\* The answers reach the first page's meta.total on page k and not before.
ReachesTotalAt(k) ==
    /\ k \in 1..Len(responses)
    /\ Cumulative(k) >= reported_total
    /\ \A j \in 1..(k - 1) : Cumulative(j) < reported_total

\* The page fetcher has requested and yielded exactly k pages and will not
\* request another.
StoppedAfter(k) ==
    /\ Len(responses) = k
    /\ Count(IsListing) = k
    /\ pages = responses
    /\ pf_pc \in { "suspended", "done" }

(***************************************************************************)
(* C1: when all listing requests succeed and the cumulative number of      *)
(* entries first reaches or exceeds the first page's meta.total on page K, *)
(* the page fetcher yields exactly the K answers, in request order, and    *)
(* issues no further request; it does not end before that page.            *)
(***************************************************************************)
C1_PaginationStopsAtK ==
    AllPagesSucceeded =>
        /\ \A k \in 1..Len(responses) : ReachesTotalAt(k) => StoppedAfter(k)
        /\ pf_pc = "done" => ReachesTotalAt(Len(pages))

\* Three pages were needed, the second of them empty, and the fetcher ended.
C1_Witness ==
    /\ AllPagesSucceeded
    /\ pf_pc = "done"
    /\ Len(pages) = 3
    /\ ReachesTotalAt(3)
    /\ pages[2].crates = <<>>

(***************************************************************************)
(* C2: when the first page reports meta.total = 0, exactly one page is     *)
(* requested and yielded, however many entries that page lists.            *)
(***************************************************************************)
C2_ZeroTotalOnePage ==
    reported_total = 0 => StoppedAfter(1)

\* A first page with total 0 that lists entries, and the fetcher ended.
C2_Witness ==
    /\ reported_total = 0
    /\ pf_pc = "done"
    /\ Len(pages) = 1
    /\ pages[1].crates # <<>>

(***************************************************************************)
(* C3: when the first page has an empty `crates` list, the loop ends after *)
(* exactly one page, whatever meta.total that page reports.                *)
(***************************************************************************)
C3_EmptyFirstPageOnePage ==
    ( /\ responses # <<>>
      /\ responses[1].status = "ok"
      /\ responses[1].crates = <<>>
      /\ reported_total # NoTotal ) => StoppedAfter(1)


(***************************************************************************)
(* C4: the page fetcher's sequence is finite: in a crates fetch whose      *)
(* caller keeps pulling, either some request fails or the page fetcher     *)
(* eventually stops requesting pages and ends.                             *)
(***************************************************************************)
C4_PageSequenceIsFinite ==
    category = CATEGORY_CRATES => <>(pf_pc = "done" \/ error # "none")


(***************************************************************************)
(* Vocabulary of the aggregator's properties.                              *)
(***************************************************************************)
\* The listing positions of the pages received so far: (page, index).
Positions ==
    { pos \in (1..Len(pages)) \X (1..MaxEntries) :
        pos[2] <= Len(pages[pos[1]].crates) }

EntryAt(pos) == pages[pos[1]].crates[pos[2]]

\* The entry's updated_at is not before the watermark.
Passes(entry) == Instant(entry.updated_at) >= Watermark

\* The aggregator's loop has gone past the entry at pos.
Processed(pos) ==
    \/ page > MaxPage
    \/ pos[1] < Len(pages)
    \/ pos[1] = Len(pages) /\ pos[2] < idx

\* The indices of the items yielded for the entry at pos.
YieldedFor(pos) == { i \in 1..Len(yielded_for) : yielded_for[i].at = pos }

\* The requests issued for the entry at pos, in order.
AtPosition(pos, r) == r.at = pos
RequestsFor(pos) == SelectSeq(requests, LAMBDA r : AtPosition(pos, r))

ExtraKeys ==
    { "owner_team_data", "owner_user_data", "version_downloads_data", "versions_data" }

Attributes == { "owner_team", "owner_user", "downloads", "versions" }

(***************************************************************************)
(* C5, as claimed: every record the crates fetch yields carries, in the    *)
(* record itself, an updated_at that is not before the watermark.          *)
(***************************************************************************)
C5_YieldedUpdatedAtNotBeforeWatermark ==
    gen = "crates" =>
        \A i \in 1..Len(yielded) : Instant(yielded[i]["updated_at"]) >= Watermark

(***************************************************************************)
(* C5, amended: every record the crates fetch yields was fetched for a     *)
(* listing entry whose updated_at, as the listing page gives it, is not    *)
(* before the watermark.                                                   *)
(***************************************************************************)
C5_YieldedEntryNotBeforeWatermark ==
    gen = "crates" =>
        \A i \in 1..Len(yielded_for) : Passes(EntryAt(yielded_for[i].at))

\* A record was yielded for a passing entry although the detail payload's
\* own updated_at is before the watermark.
C5_Witness ==
    /\ gen = "crates"
    /\ \E i \in 1..Len(yielded) :
         /\ Passes(EntryAt(yielded_for[i].at))
         /\ Instant(yielded[i]["updated_at"]) < Watermark

(***************************************************************************)
(* C6: for a listing entry whose updated_at is before the watermark no     *)
(* request is issued and no record is yielded; passing over it changes     *)
(* nothing but the loop position, so the entries and pages after it are    *)
(* still processed.                                                        *)
(***************************************************************************)
AtOlderEntry ==
    /\ Running("crates", "entry")
    /\ idx <= Len(crates)
    /\ ~Passes(crates[idx])

C6_NothingForOlderEntries ==
    gen = "crates" =>
        \A pos \in Positions :
            ~Passes(EntryAt(pos)) =>
                /\ RequestsFor(pos) = <<>>
                /\ YieldedFor(pos) = {}

\* C6: nothing is done for an older entry, and the step over it only moves
\* the loop on.
C6_WatermarkSkip ==
    /\ []C6_NothingForOlderEntries
    /\ [][AtOlderEntry =>
            /\ idx' = idx + 1
            /\ pc' = "entry"
            /\ UNCHANGED << caller, crates, pfVars, logVars, outVars, error >>]_vars

\* An entry of the first page was passed over and a record was yielded for
\* an entry of a later page.
C6_Witness ==
    /\ gen = "crates"
    /\ \E pos \in Positions :
         /\ pos[1] = 1
         /\ ~Passes(EntryAt(pos))
         /\ \E i \in 1..Len(yielded_for) : yielded_for[i].at[1] > 1

(***************************************************************************)
(* C7: for every listing entry whose updated_at is at or after the         *)
(* watermark and which the loop has gone past, one detail request and      *)
(* exactly four attribute requests (one per attribute) were issued for its *)
(* id, and exactly one record was yielded, carrying the four extra keys.   *)
(***************************************************************************)
C7_WatermarkPass ==
    gen = "crates" =>
        \A pos \in Positions :
            (Passes(EntryAt(pos)) /\ Processed(pos)) =>
                LET reqs == RequestsFor(pos)
                IN  /\ Len(reqs) = 5
                    /\ IsDetail(reqs[1])
                    /\ \A k \in 2..5 : IsAttribute(reqs[k])
                    /\ { reqs[k].url[3] : k \in 2..5 } = Attributes
                    /\ \A k \in 1..5 : reqs[k].url[2] = EntryAt(pos).id
                    /\ Cardinality(YieldedFor(pos)) = 1
                    /\ \A i \in YieldedFor(pos) : ExtraKeys \subseteq DOMAIN yielded[i]

\* A record was yielded for an entry whose updated_at equals the watermark.
C7_Witness ==
    /\ gen = "crates"
    /\ from_date_arg # None
    /\ \E pos \in Positions :
         /\ Instant(EntryAt(pos).updated_at) = Watermark
         /\ Processed(pos)
         /\ YieldedFor(pos) # {}

(***************************************************************************)
(* C8: every record yielded by the crates fetch carries the four extra     *)
(* keys; when a request made for an entry fails, the fetch ends with that  *)
(* request's error, no record exists for that entry, and from then on no   *)
(* request is issued and no record is yielded.                             *)
(***************************************************************************)
ExceptionFor(outcome) ==
    CASE outcome = "http_error" -> "HTTPError"
      [] outcome = "bad_json" -> "JSONDecodeError"
      [] outcome = "no_crate" -> "KeyError"
      [] outcome = "no_crates" -> "KeyError"

C8_OnlyCompleteRecords ==
    gen = "crates" =>
        /\ \A i \in 1..Len(yielded) : ExtraKeys \subseteq DOMAIN yielded[i]
        /\ \A k \in 1..Len(requests) :
             (requests[k].at # NoEntry /\ outcomes[k] # "ok") =>
                 /\ k = Len(requests)
                 /\ pc = "error"
                 /\ error = ExceptionFor(outcomes[k])
                 /\ YieldedFor(requests[k].at) = {}

\* C8: only complete records, and nothing happens after an error.
C8_NoPartialRecord ==
    /\ []C8_OnlyCompleteRecords
    /\ [][error # "none" => UNCHANGED << requests, yielded, error, pc >>]_vars

\* The versions request of the second entry failed after the first entry's
\* record had been yielded.
C8_Witness ==
    /\ gen = "crates"
    /\ error = "HTTPError"
    /\ Len(yielded) = 1
    /\ requests # <<>>
    /\ LET last == requests[Len(requests)]
       IN  /\ IsAttribute(last)
           /\ last.url[3] = "versions"
           /\ YieldedFor(last.at) = {}

(***************************************************************************)
(* C9: the ids for which records have been yielded are, in order, the ids  *)
(* of the listing entries the loop has gone past, page after page and in   *)
(* listing order within a page, without the entries whose updated_at is    *)
(* before the watermark.                                                   *)
(***************************************************************************)
RECURSIVE KeptIds(_, _)
KeptIds(p, i) ==
    IF p > Len(pages) THEN <<>>
    ELSE IF i > Len(pages[p].crates) THEN KeptIds(p + 1, 1)
    ELSE IF Processed(<<p, i>>) /\ Passes(pages[p].crates[i])
         THEN <<pages[p].crates[i].id>> \o KeptIds(p, i + 1)
         ELSE KeptIds(p, i + 1)

YieldedIds == [ i \in 1..Len(yielded_for) |-> yielded_for[i].id ]

C9_OutputOrder ==
    gen = "crates" => YieldedIds = KeptIds(1, 1)

\* The fetch ended having yielded crate 2 before crate 1, as listed.
C9_Witness ==
    /\ gen = "crates"
    /\ pc = "done"
    /\ YieldedIds = <<2, 1>>

(***************************************************************************)
(* C10: a summary fetch issues one request, to the summary endpoint and    *)
(* without parameters, yields one record, which is the registry's summary  *)
(* with a fetched_on key set, and ends; nothing is held back because of    *)
(* the watermark.                                                          *)
(***************************************************************************)
IsStamped(record) ==
    /\ "fetched_on" \in DOMAIN record
    /\ \E summary \in SummaryObjects, now \in Clock :
         /\ DOMAIN record = DOMAIN summary \cup { "fetched_on" }
         /\ \A key \in DOMAIN summary \ { "fetched_on" } : record[key] = summary[key]
         /\ Instant(record["fetched_on"]) = now

C10_SummaryState ==
    gen = "summary" =>
        /\ Len(requests) <= 1
        /\ Len(yielded) <= 1
        /\ pf_pc = "none"
        /\ \A k \in 1..Len(requests) :
             IsSummary(requests[k]) /\ DOMAIN requests[k].payload = {}
        /\ \A i \in 1..Len(yielded) : IsStamped(yielded[i])
        /\ pc \in { "summary_yielded", "done" } =>
             Len(requests) = 1 /\ Len(yielded) = 1
        /\ Len(yielded) = 1 => pc \in { "summary_yielded", "done" }

\* C10: one request, one stamped record, and the next pull ends the fetch.
C10_SummarySingleShot ==
    /\ []C10_SummaryState
    /\ [][(gen = "summary" /\ pc = "summary_yielded" /\ caller = "waiting")
            => pc' = "done"]_vars

\* The summary was yielded and the fetch ended although the record's
\* fetched_on is before the watermark.
C10_Witness ==
    /\ gen = "summary"
    /\ pc = "done"
    /\ Len(yielded) = 1
    /\ Instant(yielded[1]["fetched_on"]) < Watermark


(***************************************************************************)
(* C11: two summary fetches that received identical summary payloads       *)
(* yield records with the same keys and the same value under every key     *)
(* other than fetched_on, also when the payload has a fetched_on of its    *)
(* own.                                                                    *)
(***************************************************************************)
AgreeButFetchedOn(a, b) ==
    /\ DOMAIN a = DOMAIN b
    /\ \A key \in DOMAIN a \ { "fetched_on" } : a[key] = b[key]

C11_SummaryDeterminism ==
    gen = "summary" =>
        \A i, j \in 1..Len(yielded) :
            summaries[i] = summaries[j] => AgreeButFetchedOn(yielded[i], yielded[j])

\* Two fetches received the same payload, which has a fetched_on of its
\* own, at different clock readings.
C11_Witness ==
    /\ gen = "summary"
    /\ pc = "done"
    /\ Len(yielded) = 2
    /\ summaries[1] = summaries[2]
    /\ "fetched_on" \in DOMAIN summaries[1]
    /\ yielded[1]["fetched_on"] # yielded[2]["fetched_on"]

EmittedCategory == IF gen = "crates" THEN "crates" ELSE "summary"

\* The three methods succeed on record and tell the fetch that emitted it.
Derivable(record) ==
    /\ metadata_id(record) # KeyError
    /\ metadata_updated_on(record) # KeyError
    /\ metadata_category(record) = EmittedCategory

C13_EveryPayloadDerivable ==
    \A i \in 1..Len(yielded) : Derivable(yielded[i])

(***************************************************************************)
(* C13: a record yielded by the crates fetch from a detail `crate` object  *)
(* that has `id` and `updated_at` and no `num_downloads`, and the record   *)
(* yielded by the summary fetch from a summary payload that has            *)
(* `num_downloads`, get a value from metadata_id and metadata_updated_on   *)
(* and the category of the fetch that emitted them from metadata_category. *)
(***************************************************************************)
\* The payload the i-th yielded record was built from follows the
\* registry's schema as far as the classifier reads it.
FollowsSchema(i) ==
    IF gen = "crates"
    THEN /\ { "id", "updated_at" } \subseteq DOMAIN details[i]
         /\ "num_downloads" \notin DOMAIN details[i]
    ELSE "num_downloads" \in DOMAIN summaries[i]

C13_SchemaPayloadDerivable ==
    \A i \in 1..Len(yielded) : FollowsSchema(i) => Derivable(yielded[i])

\* The crates fetch yielded two records: the first from a `crate` object of
\* the schema, identified by its id; the second from one without
\* `updated_at`, for which metadata_updated_on has no value.
C13_Witness ==
    /\ gen = "crates"
    /\ Len(yielded) = 2
    /\ FollowsSchema(1)
    /\ metadata_id(yielded[1]) = Str(yielded[1]["id"])
    /\ metadata_category(yielded[1]) = "crates"
    /\ ~FollowsSchema(2)
    /\ metadata_updated_on(yielded[2]) = KeyError

(***************************************************************************)
(* C14: the total of the stop test is the meta.total of the first page:    *)
(* once the first page is accepted the threshold equals it, and a later    *)
(* page that decodes with a `crates` list is yielded with the threshold    *)
(* unchanged and without error, although its `meta` is absent or reports   *)
(* another total.                                                          *)
(***************************************************************************)
\* The step logs the answer to a request for a page after the first, and
\* that answer is a page envelope.
LaterPageAnswered ==
    /\ responses # <<>>
    /\ Len(responses') = Len(responses) + 1
    /\ responses'[Len(responses')].status = "ok"

C14_ThresholdIsFirstTotal ==
    /\ [](pages # <<>> => total_crates = reported_total)
    /\ [][total_crates' # total_crates => responses = <<>>]_vars
    /\ [][LaterPageAnswered =>
            /\ total_crates' = total_crates
            /\ pages' = Append(pages, responses'[Len(responses')])
            /\ error' = "none"]_vars

\* Three pages were yielded, the later two without the first page's total,
\* and the fetcher stopped on the first page's total.
C14_Witness ==
    /\ Len(pages) = 3
    /\ total_crates = 2
    /\ reported_total = 2
    /\ parsed_crates = 2
    /\ pf_pc = "done"

(***************************************************************************)
(* C15: when the request for page N fails in transport, or its body does   *)
(* not decode, or it has no `crates`, or page 1 has no meta.total, the     *)
(* page fetcher ends with that error at once: the caller receives it, page *)
(* N is not yielded, it is the last request of the run, and the pages      *)
(* yielded are the answers to pages 1..N-1 in order.                       *)
(***************************************************************************)
\* The error the k-th listing answer calls for, "none" if it is usable.
PageFailure(k) ==
    CASE responses[k].status = "http_error" -> "HTTPError"
      [] responses[k].status = "bad_json" -> "JSONDecodeError"
      [] responses[k].status = "no_crates" -> "KeyError"
      [] k = 1 /\ reported_total = NoTotal -> "KeyError"
      [] OTHER -> "none"

C15_PageFailureEndsRun ==
    \A k \in 1..Len(responses) :
        PageFailure(k) # "none" =>
            /\ k = Len(responses)
            /\ error = PageFailure(k)
            /\ pf_pc = "error"
            /\ pc = "error"
            /\ caller = "idle"
            /\ pages = SubSeq(responses, 1, k - 1)
            /\ Count(IsListing) = k
            /\ requests[Len(requests)] = ListingRequest(k)

\* Two pages were yielded and the body of the third did not decode.
C15_Witness ==
    /\ Len(responses) = 3
    /\ PageFailure(3) = "JSONDecodeError"
    /\ Len(pages) = 2
    /\ error = "JSONDecodeError"

(***************************************************************************)
(* C16: the listing requests of a run ask for consecutive page numbers     *)
(* starting at 1, the default first page, each number once and in          *)
(* increasing order, and each carries sort=alphabetical and its page       *)
(* number as its only parameters.                                          *)
(***************************************************************************)
\* The listing requests of the run, in the order they were issued.
ListingRequests == SelectSeq(requests, IsListing)

C16_ConsecutivePages ==
    \A k \in 1..Len(ListingRequests) :
        /\ DOMAIN ListingRequests[k].payload = { "sort", "page" }
        /\ ListingRequests[k].payload["sort"] = "alphabetical"
        /\ ListingRequests[k].payload["page"] = k

\* Pages 1, 2 and 3 were requested, with requests for a crate in between.
C16_Witness ==
    /\ Len(ListingRequests) = 3
    /\ ListingRequests[3].payload["page"] = 3
    /\ Count(IsDetail) > 0
    /\ pf_pc = "done"

(***************************************************************************)
(* C17: for an entry that passes the watermark the aggregator requests the *)
(* crate's detail, then its owner_team, owner_user, downloads and versions *)
(* attributes, one after the other in that order and each once; the record *)
(* it yields is the `crate` object of the detail payload with              *)
(* owner_team_data, owner_user_data, version_downloads_data and            *)
(* versions_data set to the payloads of those four requests in that order, *)
(* and it is yielded only when all five requests have been answered.       *)
(***************************************************************************)
\* The paths of the five requests for crate id, in the order of the code.
SubFetchPaths(id) ==
    << << "crates", id >>,
       << "crates", id, "owner_team" >>,
       << "crates", id, "owner_user" >>,
       << "crates", id, "downloads" >>,
       << "crates", id, "versions" >> >>

\* The requests issued for the entry at pos are the first of the five.
InSubFetchOrder(pos) ==
    LET sub == RequestsFor(pos)
    IN  /\ Len(sub) <= 5
        /\ \A k \in 1..Len(sub) : sub[k].url = SubFetchPaths(EntryAt(pos).id)[k]

\* The i-th yielded record is the i-th detail object plus the four payloads.
IsComposite(i) ==
    LET id == yielded_for[i].id
        record == yielded[i]
    IN  /\ DOMAIN record = DOMAIN details[i] \cup ExtraKeys
        /\ \A key \in DOMAIN details[i] \ ExtraKeys : record[key] = details[i][key]
        /\ record["owner_team_data"] = [of |-> id, attribute |-> "owner_team"]
        /\ record["owner_user_data"] = [of |-> id, attribute |-> "owner_user"]
        /\ record["version_downloads_data"] = [of |-> id, attribute |-> "downloads"]
        /\ record["versions_data"] = [of |-> id, attribute |-> "versions"]

C17_SubFetchOrder ==
    gen = "crates" =>
        /\ \A pos \in Positions : InSubFetchOrder(pos)
        /\ \A i \in 1..Len(yielded) :
             /\ Len(RequestsFor(yielded_for[i].at)) = 5
             /\ IsComposite(i)

\* The second entry of a page has its record; the five requests for it
\* came after the five for the first.
C17_Witness ==
    /\ gen = "crates"
    /\ Len(yielded) = 2
    /\ yielded_for[2].at = << 1, 2 >>
    /\ Len(requests) = 11
    /\ requests[11].url = << "crates", yielded_for[2].id, "versions" >>
    /\ IsComposite(2)

(***************************************************************************)
(* C18: the crates fetch is driven by the caller's pulls: a request is     *)
(* issued only while the caller waits for the next record, one request at  *)
(* a time; a request for a listing entry is issued only when every earlier *)
(* entry that passes the watermark has its record yielded; and a page is   *)
(* requested only when every passing entry of the pages before it has its  *)
(* record yielded and the caller has pulled again.                         *)
(***************************************************************************)
\* Position a comes before position b in the listing.
Earlier(a, b) == a[1] < b[1] \/ (a[1] = b[1] /\ a[2] < b[2])

\* Every passing entry before position b has its record yielded.
EarlierYielded(b) ==
    \A pos \in Positions :
        (Earlier(pos, b) /\ Passes(EntryAt(pos))) => YieldedFor(pos) # {}

\* What request r, the latest of the run, had to wait for.
AfterEarlierRecords(r) ==
    IF IsListing(r) THEN EarlierYielded(<< r.payload["page"], 1 >>)
    ELSE EarlierYielded(r.at)

C18_PullDriven ==
    /\ []((gen = "crates" /\ requests # <<>>) =>
            AfterEarlierRecords(requests[Len(requests)]))
    /\ [][requests' # requests =>
            /\ caller = "waiting"
            /\ Len(requests') = Len(requests) + 1
            /\ SubSeq(requests', 1, Len(requests)) = requests]_vars
    /\ [][(yielded' # yielded /\ gen = "crates") =>
            (caller' = "idle" /\ requests' = requests)]_vars

\* One record was yielded, the caller pulled again and page 2 was requested.
C18_Witness ==
    /\ gen = "crates"
    /\ Len(yielded) = 1
    /\ yielded_for[1].at[1] = 1
    /\ IsListing(requests[Len(requests)])
    /\ requests[Len(requests)].payload["page"] = 2
    /\ caller = "waiting"

(***************************************************************************)
(* C19: a fetch for category `crates` runs the crate aggregator only and   *)
(* never requests the summary; a fetch for any other category runs the     *)
(* summary fetcher only, which issues one request, to the summary          *)
(* endpoint, and no listing, detail or attribute request.                  *)
(***************************************************************************)
C19_CategoryDispatch ==
    IF category = "crates"
    THEN /\ gen \in { "none", "crates" }
         /\ \A k \in 1..Len(requests) : ~IsSummary(requests[k])
         /\ pc \notin { "summary_yielded" }
    ELSE /\ gen \in { "none", "summary" }
         /\ \A k \in 1..Len(requests) : IsSummary(requests[k])
         /\ Len(requests) <= 1
         /\ pc \in { "summary_yielded", "done", "error" } => Len(requests) = 1
         /\ pf_pc = "none"

\* A fetch for a category that is neither `crates` nor `summary` ended
\* after its one summary request.
C19_Witness ==
    /\ category \notin { "crates", "summary" }
    /\ pc = "done"
    /\ Len(requests) = 1
    /\ IsSummary(requests[1])
    /\ Len(yielded) = 1

====
